---- MODULE Spec2Model ----
(***************************************************************************)
(* Model of bowtie/_report.py: the single-pass fold Report.from_input over *)
(* a stream of decoded records, Summary.with_result, the Reporter /        *)
(* CaseReporter writers and the queries of a finished Report.              *)
(*                                                                         *)
(* A decoded record (a Python dict) is a function whose DOMAIN is the set  *)
(* of keys present, so `"caught" in data` is "caught" \in DOMAIN data.     *)
(***************************************************************************)
EXTENDS Integers, Sequences, FiniteSets, TLC

\* ------------------------------------------------------------------ bounds
\* Longest record stream (header included) drawn as input.
MaxLen == 4

\* Most tests in the case of a badge run.
MaxTests == 50

\* ------------------------------------------------------- input alphabet
Dialect == "draft2020-12"
OtherDialect == "draft7"

\* The implementations the header declares, keyed by name; each descriptor
\* carries its image, which is the name results are recorded under.
Descriptors ==
    [i1 |-> [name |-> "one", language |-> "py", image |-> "i1",
             dialects |-> <<Dialect, OtherDialect>>],
     i2 |-> [name |-> "two", language |-> "go", image |-> "i2",
             dialects |-> <<Dialect>>],
     i3 |-> [name |-> "three", language |-> "rs", image |-> "i3",
             dialects |-> <<OtherDialect>>]]

\* Header records: `started` is an ISO-8601 string or null.
Headers ==
    { [dialect |-> Dialect, implementations |-> Descriptors,
       bowtie_version |-> "v1", metadata |-> "m", started |-> s]
        : s \in {"null", "t0"} }

\* Case bodies as they appear under the "case" key.  BodyM lacks the
\* required `tests` field.
BodyA == [description |-> "A", schema |-> "s", tests |-> <<"t1">>]
BodyB == [description |-> "B", schema |-> "s", tests |-> <<"t1", "t2">>]
BodyM == [description |-> "M", schema |-> "s"]

CaseRecords ==
    { [seq |-> 1, case |-> BodyA],
      [seq |-> 2, case |-> BodyB],
      [seq |-> 1, case |-> BodyM] }

ResultRecords ==
    { [seq |-> 1, implementation |-> "i1", results |-> <<"fail">>],
      [seq |-> 2, implementation |-> "i1", results |-> <<"pass", "skip">>] }

ErroredRecords ==
    { [seq |-> 1, implementation |-> "i1", context |-> "x", caught |-> TRUE],
      [seq |-> 2, implementation |-> "i2", context |-> "x", caught |-> FALSE] }

SkippedRecords ==
    { [seq |-> 1, implementation |-> "i2", message |-> "r", skipped |-> TRUE] }

TerminalRecords == { [did_fail_fast |-> b] : b \in BOOLEAN }

\* Records that satisfy more than one shape's predicate.
OverlapRecords ==
    { [seq |-> 2, case |-> BodyA, caught |-> TRUE, implementation |-> "i1",
       context |-> "x"],
      [seq |-> 2, implementation |-> "i1", context |-> "x", caught |-> TRUE,
       did_fail_fast |-> TRUE],
      [seq |-> 2, implementation |-> "i2", message |-> "r", skipped |-> TRUE,
       did_fail_fast |-> TRUE],
      [seq |-> 1, implementation |-> "i2", results |-> <<"error">>,
       skipped |-> FALSE] }

Records ==
    CaseRecords \cup ResultRecords \cup ErroredRecords \cup SkippedRecords
        \cup TerminalRecords \cup OverlapRecords

\* What may stand first in the stream: a header, or a record that is none.
FirstRecords == Headers \cup { [seq |-> 1, case |-> BodyA] }

\* The record sources from_input is run on: empty, or a first record
\* followed by up to MaxLen - 1 records.
IsStream(stream) ==
    \/ stream = <<>>
    \/ \E n \in 0..(MaxLen - 1) :
          \E h \in FirstRecords, t \in [1..n -> Records] : stream = <<h>> \o t

\* ------------------------------------------------------ persistent maps
\* HashTrieMap(): the empty map.
EmptyMap == <<>>

\* HashTrieMap.insert(k, v): a new map with k bound to v.
Insert(m, k, v) == [x \in (DOMAIN m) \cup {k} |-> IF x = k THEN v ELSE m[x]]

\* HashTrieMap.get(k, default).
Get(m, k, default) == IF k \in DOMAIN m THEN m[k] ELSE default

\* dict without some keys: the rest captured by `**skip` in a mapping pattern.
Without(data, keys) == [k \in (DOMAIN data) \ keys |-> data[k]]

\* dict restricted to some keys.
Only(data, keys) == [k \in (DOMAIN data) \cap keys |-> data[k]]

\* ------------------------------------------------- bowtie._commands types
\* The three result variants and TestCase: their constructors accept a record
\* that carries the fields of the data model and fail when one is missing.
ErroredFields == {"implementation", "seq", "context", "caught"}
SkippedFields == {"implementation", "seq", "message"}
ResultFields == {"implementation", "seq", "results"}
TestCaseFields == {"description", "schema", "tests", "dialect"}

\* CaseErrored(**data); `caught` defaults to True.
CaseErrored(data) ==
    IF {"implementation", "seq", "context"} \subseteq DOMAIN data
    THEN [ok |-> TRUE,
          value |-> [kind |-> "CaseErrored",
                     implementation |-> data.implementation,
                     seq |-> data.seq,
                     context |-> data.context,
                     caught |-> Get(data, "caught", TRUE)]]
    ELSE [ok |-> FALSE, value |-> [kind |-> "none"]]

\* CaseSkipped(**skip)
CaseSkipped(skip) ==
    IF {"implementation", "seq"} \subseteq DOMAIN skip
    THEN [ok |-> TRUE,
          value |-> [kind |-> "CaseSkipped",
                     implementation |-> skip.implementation,
                     seq |-> skip.seq,
                     message |-> Get(skip, "message", "null")]]
    ELSE [ok |-> FALSE, value |-> [kind |-> "none"]]

\* CaseResult.from_dict(data)
CaseResult_from_dict(data) ==
    IF ResultFields \subseteq DOMAIN data
    THEN [ok |-> TRUE,
          value |-> [kind |-> "CaseResult",
                     implementation |-> data.implementation,
                     seq |-> data.seq,
                     results |-> data.results]]
    ELSE [ok |-> FALSE, value |-> [kind |-> "none"]]

\* TestCase.from_dict(**case), the dialect already injected into the payload.
TestCase_from_dict(case) ==
    IF TestCaseFields \subseteq DOMAIN case
    THEN [ok |-> TRUE, value |-> Only(case, TestCaseFields)]
    ELSE [ok |-> FALSE, value |-> [description |-> "none"]]

\* ----------------------------------------------------------------- Count
Count(failed, errored, skipped) ==
    [failed_tests |-> failed, errored_tests |-> errored, skipped_tests |-> skipped]

ZeroCount == Count(0, 0, 0)

\* Count.unsuccessful_tests
unsuccessful_tests(count) ==
    count.errored_tests + count.failed_tests + count.skipped_tests

\* How many entries of a sequence of per-test outcomes equal `o`.
NumberOf(outcomes, o) == Cardinality({ i \in DOMAIN outcomes : outcomes[i] = o })

\* AnyCaseResult.be_counted(count): the counting policy of each variant.
be_counted(result, count) ==
    CASE result.kind = "CaseErrored" ->
            [count EXCEPT !.errored_tests = @ + 1]
      [] result.kind = "CaseSkipped" ->
            [count EXCEPT !.skipped_tests = @ + 1]
      [] result.kind = "CaseResult" ->
            Count(count.failed_tests + NumberOf(result.results, "fail"),
                  count.errored_tests + NumberOf(result.results, "error"),
                  count.skipped_tests + NumberOf(result.results, "skip"))

\* --------------------------------------------------------------- Summary
\* Summary(): _results maps Seq -> (implementation -> result),
\* by_implementation maps implementation -> Count.
EmptySummary == [results |-> EmptyMap, by_implementation |-> EmptyMap]

\* with_result that builds the Count map anew from the one implementation
\* instead of inserting into the current map.
with_result_single_count(summary, result) ==
    LET seq == result.seq
        results == Get(summary.results, seq, EmptyMap)
        implementation == result.implementation
        count == Get(summary.by_implementation, implementation, ZeroCount)
    IN  IF implementation \in DOMAIN results
        THEN [raised |-> TRUE, summary |-> summary]
        ELSE [raised |-> FALSE,
              summary |->
                [by_implementation |->
                    Insert(EmptyMap, implementation, be_counted(result, count)),
                 results |->
                    Insert(summary.results, seq,
                           Insert(results, implementation, result))]]

\* with_result that counts every result from zero instead of from the
\* implementation's current Count.
with_result_fresh_count(summary, result) ==
    LET seq == result.seq
        results == Get(summary.results, seq, EmptyMap)
        implementation == result.implementation
    IN  IF implementation \in DOMAIN results
        THEN [raised |-> TRUE, summary |-> summary]
        ELSE [raised |-> FALSE,
              summary |->
                [by_implementation |->
                    Insert(summary.by_implementation, implementation,
                           be_counted(result, ZeroCount)),
                 results |->
                    Insert(summary.results, seq,
                           Insert(results, implementation, result))]]

\* with_result without its duplicate check: a second result for the same
\* (Seq, implementation) replaces the first.
with_result_overwrite(summary, result) ==
    LET seq == result.seq
        results == Get(summary.results, seq, EmptyMap)
        implementation == result.implementation
        count == Get(summary.by_implementation, implementation, ZeroCount)
    IN  [raised |-> FALSE,
         summary |->
           [by_implementation |->
               Insert(summary.by_implementation, implementation,
                      be_counted(result, count)),
            results |->
               Insert(summary.results, seq,
                      Insert(results, implementation, result))]]

\* with_result inserting the result and leaving the Count map as it was.
with_result_uncounted(summary, result) ==
    LET seq == result.seq
        results == Get(summary.results, seq, EmptyMap)
        implementation == result.implementation
    IN  IF implementation \in DOMAIN results
        THEN [raised |-> TRUE, summary |-> summary]
        ELSE [raised |-> FALSE,
              summary |->
                [by_implementation |-> summary.by_implementation,
                 results |->
                    Insert(summary.results, seq,
                           Insert(results, implementation, result))]]

\* Summary.with_result(result): the new Summary, or the raised error.
with_result(summary, result) ==
    LET seq == result.seq
        results == Get(summary.results, seq, EmptyMap)
        implementation == result.implementation
        count == Get(summary.by_implementation, implementation, ZeroCount)
    IN  IF implementation \in DOMAIN results
        THEN [raised |-> TRUE, summary |-> summary]
        ELSE [raised |-> FALSE,
              summary |->
                [by_implementation |->
                    Insert(summary.by_implementation, implementation,
                           be_counted(result, count)),
                 results |->
                    Insert(summary.results, seq,
                           Insert(results, implementation, result))]]

\* Summary.__getitem__(seq): defined only when a result was stored for seq.
HasResults(summary, seq) == seq \in DOMAIN summary.results

\* ----------------------------------------------------------- RunMetadata
NoMetadata == [unset |-> TRUE]

\* URL.parse(string) and str(url)
URL_parse(string) == [url |-> string]
URL_str(url) == url.url

\* datetime.fromisoformat(string), datetime.isoformat() and the default of
\* the `started` field, the current time.
datetime_fromisoformat(string) == [datetime |-> string]
datetime_isoformat(datetime) == datetime.datetime
datetime_now == [datetime |-> "now"]

\* RunMetadata.from_dict(dialect, **kwargs): `started` is popped and parsed
\* unless null, in which case the field takes its default (the current time).
RunMetadata_from_dict(header) ==
    IF {"dialect", "started", "implementations"} \subseteq DOMAIN header
    THEN [ok |-> TRUE,
          value |-> [dialect |-> URL_parse(header.dialect),
                     implementations |-> header.implementations,
                     bowtie_version |-> Get(header, "bowtie_version", "installed"),
                     metadata |-> Get(header, "metadata", "{}"),
                     started |-> IF header.started /= "null"
                                 THEN datetime_fromisoformat(header.started)
                                 ELSE datetime_now]]
    ELSE [ok |-> FALSE, value |-> NoMetadata]

\* RunMetadata.serializable()
RunMetadata_serializable(md) ==
    [dialect |-> URL_str(md.dialect), implementations |-> md.implementations,
     bowtie_version |-> md.bowtie_version, metadata |-> md.metadata,
     started |-> datetime_isoformat(md.started)]

\* -------------------------------------------------------------- dispatch
\* The match statement with the terminal pattern tried before the error and
\* skip patterns.
Classify_terminal_first(data) ==
    IF {"seq", "case"} \subseteq DOMAIN data THEN "case"
    ELSE IF "did_fail_fast" \in DOMAIN data THEN "terminal"
    ELSE IF "caught" \in DOMAIN data THEN "errored"
    ELSE IF "skipped" \in DOMAIN data /\ data.skipped = TRUE THEN "skipped"
    ELSE "result"

\* The match statement of Report.from_input: the first pattern that matches.
Classify(data) ==
    IF {"seq", "case"} \subseteq DOMAIN data THEN "case"
    ELSE IF "caught" \in DOMAIN data THEN "errored"
    ELSE IF "skipped" \in DOMAIN data /\ data.skipped = TRUE THEN "skipped"
    ELSE IF "did_fail_fast" \in DOMAIN data THEN "terminal"
    ELSE "result"

\* Error values: the exception raised out of from_input.
EmptyReport == "EmptyReport"
DuplicateCase == "_InvalidBowtieReport: Duplicate case"
DuplicateResult == "_InvalidBowtieReport: Duplicate result for case ID"
DecodeError == "TypeError"
NoError == "none"

JSONDecodeError == "JSONDecodeError"


\* ------------------------------------------- the handlers of from_input
\* The locals of the loop: cases, summary, did_fail_fast, together with
\* where control goes next ("loop", "done" after break, "raised") and the
\* exception raised, if any.
LoopState(cases_, summary_, dff, pc_, error_) ==
    [cases |-> cases_, summary |-> summary_, did_fail_fast |-> dff,
     pc |-> pc_, error |-> error_]

Raise(st, err) == [st EXCEPT !.pc = "raised", !.error = err]

\* Storing into a fresh Summary instead of the current one: what was stored
\* before is dropped.
Store_into_empty(st, decoded) ==
    IF ~decoded.ok THEN Raise(st, DecodeError)
    ELSE LET r == with_result(EmptySummary, decoded.value)
         IN  IF r.raised THEN Raise(st, DuplicateResult)
             ELSE [st EXCEPT !.summary = r.summary]

\* summary = summary.with_result(decoded), or the decoder's exception.
Store(st, decoded) ==
    IF ~decoded.ok THEN Raise(st, DecodeError)
    ELSE LET r == with_result(st.summary, decoded.value)
         IN  IF r.raised THEN Raise(st, DuplicateResult)
             ELSE [st EXCEPT !.summary = r.summary]

\* The case handler without its duplicate check: a repeated Seq replaces
\* the registered case.
handle_case_overwrite(st, md, data) ==
    LET payload == Insert(data.case, "dialect", md.dialect)
        case == TestCase_from_dict(payload)
    IN  IF ~case.ok THEN Raise(st, DecodeError)
        ELSE [st EXCEPT !.cases = Insert(st.cases, data.seq, case.value)]

\* case {"seq": Seq(seq), "case": case}
handle_case(st, md, data) ==
    IF data.seq \in DOMAIN st.cases THEN Raise(st, DuplicateCase)
    ELSE LET payload == Insert(data.case, "dialect", md.dialect)
             case == TestCase_from_dict(payload)
         IN  IF ~case.ok THEN Raise(st, DecodeError)
             ELSE [st EXCEPT !.cases = Insert(st.cases, data.seq, case.value)]

\* case data if "caught" in data
handle_errored(st, data) == Store(st, CaseErrored(data))

\* case {"skipped": True, **skip}
handle_skipped(st, data) == Store(st, CaseSkipped(Without(data, {"skipped"})))

\* The terminal handler breaking without binding the flag of the record.
handle_terminal_keeps_flag(st, data) == [st EXCEPT !.pc = "done"]

\* The terminal handler without its break: the flag is recorded and the
\* loop goes on.
handle_terminal_no_break(st, data) ==
    [st EXCEPT !.did_fail_fast = data.did_fail_fast]

\* case {"did_fail_fast": did_fail_fast}: break
handle_terminal(st, data) ==
    [st EXCEPT !.did_fail_fast = data.did_fail_fast, !.pc = "done"]

\* The default branch refusing a result whose Seq has no registered case.
handle_result_needs_case(st, data) ==
    IF "seq" \in DOMAIN data /\ data.seq \notin DOMAIN st.cases
    THEN Raise(st, DecodeError)
    ELSE Store(st, CaseResult_from_dict(data))

\* case _
handle_result(st, data) == Store(st, CaseResult_from_dict(data))

\* One iteration of the loop body on one record.
Handle(st, md, data) ==
    LET shape == Classify(data)
    IN  CASE shape = "case" -> handle_case(st, md, data)
          [] shape = "errored" -> handle_errored(st, data)
          [] shape = "skipped" -> handle_skipped(st, data)
          [] shape = "terminal" -> handle_terminal(st, data)
          [] shape = "result" -> handle_result(st, data)

\* ----------------------------------------------------------------- state
VARIABLES
    input,          \* the record source handed to from_input
    pos,            \* how many records the iterator has yielded
    pc,             \* "start", "loop", "done" (Report returned), "raised",
                    \* "queried" (cases_with_results consumed), "badged"
                    \* (generate_badges called)
    metadata,       \* RunMetadata built from the header
    cases,          \* CaseStore: Seq -> TestCase
    summary,        \* Summary
    did_fail_fast,
    error,          \* the exception from_input raised
    view,           \* what cases_with_results yielded, and whether it raised
    badges,         \* what generate_badges wrote, and the exception it raised
    serialized      \* TRUE when input holds the lines given to from_serialized

vars == <<input, pos, pc, metadata, cases, summary, did_fail_fast, error, view,
          badges, serialized>>

Locals == LoopState(cases, summary, did_fail_fast, pc, error)

NoView == [entries |-> <<>>, raised |-> FALSE]

NoBadges == [written |-> <<>>, error |-> NoError]

\* A serialized line is the JSON text of one record, or text json.loads
\* rejects.
json_dumps(record) == [json |-> record]

Undecodable == [text |-> "not json"]

json_loads(line) ==
    IF "json" \in DOMAIN line
    THEN [ok |-> TRUE, value |-> line.json]
    ELSE [ok |-> FALSE]

\* from_serialized hands from_input the generator
\* `json.loads(line) for line in serialized`: the k-th record is decoded when
\* the iterator is asked for it, not before.
Decodes(k) == serialized => json_loads(input[k]).ok

Yielded(k) == IF serialized THEN json_loads(input[k]).value ELSE input[k]

Init ==
    /\ IsStream(input)
    /\ serialized = FALSE
    /\ badges = NoBadges
    /\ pos = 0
    /\ pc = "start"
    /\ metadata = NoMetadata
    /\ cases = EmptyMap
    /\ summary = EmptySummary
    /\ did_fail_fast = FALSE
    /\ error = NoError
    /\ view = NoView

\* from_input answering an empty source with an empty Report instead of
\* raising.
RaiseEmptyReport_returns ==
    /\ pc = "start"
    /\ input = <<>>
    /\ pc' = "done"
    /\ UNCHANGED <<input, pos, metadata, cases, summary, did_fail_fast, error, view,
                 badges, serialized>>

\* header = next(iterator, None); if header is None: raise EmptyReport()
RaiseEmptyReport ==
    /\ pc = "start"
    /\ input = <<>>
    /\ pc' = "raised"
    /\ error' = EmptyReport
    /\ UNCHANGED <<input, pos, metadata, cases, summary, did_fail_fast, view,
                 badges, serialized>>

\* metadata = RunMetadata.from_dict(**header), then the empty locals.
ReadHeader ==
    /\ pc = "start"
    /\ input /= <<>>
    /\ Decodes(1)
    /\ pos' = 1
    /\ LET md == RunMetadata_from_dict(Yielded(1))
       IN  IF md.ok
           THEN /\ metadata' = md.value
                /\ pc' = "loop"
                /\ error' = error
           ELSE /\ metadata' = metadata
                /\ pc' = "raised"
                /\ error' = DecodeError
    /\ cases' = EmptyMap
    /\ summary' = EmptySummary
    /\ did_fail_fast' = FALSE
    /\ UNCHANGED <<input, view, badges, serialized>>

\* `for data in iterator`: a next record exists and has the given shape.
Pulls(shape) ==
    /\ pc = "loop"
    /\ pos < Len(input)
    /\ Decodes(pos + 1)
    /\ Classify(Yielded(pos + 1)) = shape

\* The record is consumed and the locals become what its handler left.
Becomes(st) ==
    /\ pos' = pos + 1
    /\ cases' = st.cases
    /\ summary' = st.summary
    /\ did_fail_fast' = st.did_fail_fast
    /\ pc' = st.pc
    /\ error' = st.error
    /\ UNCHANGED <<input, metadata, view, badges, serialized>>

PullCase ==
    /\ Pulls("case")
    /\ Becomes(handle_case(Locals, metadata, Yielded(pos + 1)))

PullErrored ==
    /\ Pulls("errored")
    /\ Becomes(handle_errored(Locals, Yielded(pos + 1)))

PullSkipped ==
    /\ Pulls("skipped")
    /\ Becomes(handle_skipped(Locals, Yielded(pos + 1)))

PullTerminal ==
    /\ Pulls("terminal")
    /\ Becomes(handle_terminal(Locals, Yielded(pos + 1)))

PullResult ==
    /\ Pulls("result")
    /\ Becomes(handle_result(Locals, Yielded(pos + 1)))

\* The generator raises when the line it is asked for is not JSON; the
\* exception leaves from_input, as the header fetch and the loop catch nothing.
\* A line that is never asked for is never decoded.
PullUndecodable_skips ==
    /\ pc \in {"start", "loop"}
    /\ pos < Len(input)
    /\ ~Decodes(pos + 1)
    /\ pos' = pos + 1
    /\ UNCHANGED <<input, pc, metadata, cases, summary, did_fail_fast, error,
                   view, badges, serialized>>

PullUndecodable ==
    /\ pc \in {"start", "loop"}
    /\ pos < Len(input)
    /\ ~Decodes(pos + 1)
    /\ pos' = pos + 1
    /\ pc' = "raised"
    /\ error' = JSONDecodeError
    /\ UNCHANGED <<input, metadata, cases, summary, did_fail_fast, view,
                   badges, serialized>>

\* The iterator is exhausted: the loop ends and the Report is returned.
Exhausted ==
    /\ pc = "loop"
    /\ pos = Len(input)
    /\ pc' = "done"
    /\ UNCHANGED <<input, pos, metadata, cases, summary, did_fail_fast, error, view,
                 badges, serialized>>

\* The Report from_input returned.
TheReport ==
    [cases |-> cases, metadata |-> metadata, summary |-> summary,
     did_fail_fast |-> did_fail_fast]


\* ------------------------------------------------ from_input as a whole
\* The loop over stream[k..]: the locals when it ends, and how far it read.
RECURSIVE Loop(_, _, _, _)
Loop(st, md, stream, k) ==
    IF st.pc /= "loop" THEN [st |-> st, pos |-> k - 1]
    ELSE IF k > Len(stream) THEN [st |-> [st EXCEPT !.pc = "done"], pos |-> k - 1]
    ELSE Loop(Handle(st, md, stream[k]), md, stream, k + 1)

\* Report.from_input(stream): the Report (pc = "done") or the exception.
from_input(stream) ==
    IF stream = <<>>
    THEN [pc |-> "raised", error |-> EmptyReport, metadata |-> NoMetadata,
          cases |-> EmptyMap, summary |-> EmptySummary,
          did_fail_fast |-> FALSE, pos |-> 0]
    ELSE LET md == RunMetadata_from_dict(stream[1])
         IN  IF ~md.ok
             THEN [pc |-> "raised", error |-> DecodeError,
                   metadata |-> NoMetadata, cases |-> EmptyMap,
                   summary |-> EmptySummary, did_fail_fast |-> FALSE,
                   pos |-> 1]
             ELSE LET r == Loop(LoopState(EmptyMap, EmptySummary, FALSE,
                                          "loop", NoError),
                                md.value, stream, 2)
                  IN  [pc |-> r.st.pc, error |-> r.st.error,
                       metadata |-> md.value, cases |-> r.st.cases,
                       summary |-> r.st.summary,
                       did_fail_fast |-> r.st.did_fail_fast, pos |-> r.pos]

\* --------------------------------------------------------------- writers
\* TestCase.serializable(): the persisted case body, which carries no dialect.
TestCase_serializable(case) == Without(case, {"dialect"})

\* CaseErrored.serializable()
CaseErrored_serializable(result) == Only(result, ErroredFields)

\* CaseSkipped.serializable(): the fields and the `skipped` flag.
CaseSkipped_serializable(result) ==
    Insert(Only(result, SkippedFields), "skipped", TRUE)

\* Reporter.ready(run_metadata): write(**run_metadata.serializable())
ready(md) == RunMetadata_serializable(md)

\* Reporter.finished(count, did_fail_fast): write(did_fail_fast=did_fail_fast)
finished(dff) == [did_fail_fast |-> dff]

\* case_started writing the case body without its Seq.
case_started_without_seq(seq, case) == [case |-> TestCase_serializable(case)]

\* CaseReporter.case_started: write(case=case.serializable(), seq=seq)
case_started(seq, case) == [case |-> TestCase_serializable(case), seq |-> seq]

\* CaseReporter.got_results: write(**asdict(results))
got_results(result) == Only(result, ResultFields)

\* CaseReporter.skipped: write(**skipped.serializable())
skipped(result) == CaseSkipped_serializable(result)

\* CaseReporter.case_errored: write(**results.serializable())
case_errored(result) == CaseErrored_serializable(result)

\* The writer a result goes through, by variant.
WriteResult(result) ==
    CASE result.kind = "CaseResult" -> got_results(result)
      [] result.kind = "CaseErrored" -> case_errored(result)
      [] result.kind = "CaseSkipped" -> skipped(result)

\* --------------------------------------------------------------- queries
\* The least element of a non-empty set of Seqs.
Least(S) == CHOOSE x \in S : \A y \in S : x <= y

\* sorted(...): the Seqs of a set in ascending order.
RECURSIVE Sorted(_)
Sorted(S) == IF S = {} THEN <<>> ELSE <<Least(S)>> \o Sorted(S \ {Least(S)})

\* Report.implementations: the image of every declared implementation, in
\* the order of the header's mapping.
ImplementationOrder == <<"i1", "i2", "i3">>

implementations(report) ==
    SelectSeq(ImplementationOrder,
              LAMBDA each : \E k \in DOMAIN report.metadata.implementations :
                                report.metadata.implementations[k].image = each)

\* result.results[i] for 0-based i: per-test outcomes of a CaseResult; an
\* errored or skipped case answers every position with its own outcome.
HasResultAt(result, i) ==
    result.kind = "CaseResult" => i + 1 <= Len(result.results)

ResultAt(result, i) ==
    CASE result.kind = "CaseResult" -> result.results[i + 1]
      [] result.kind = "CaseErrored" -> "error"
      [] result.kind = "CaseSkipped" -> "skip"

\* The body of the loop of cases_with_results for one (seq, case): the pair
\* it yields, or the exception raised by summary[seq] or results[i].
CaseView(report, seq) ==
    LET case == report.cases[seq]
    IN  IF ~HasResults(report.summary, seq)
        THEN [raised |-> TRUE, entry |-> [seq |-> seq]]
        ELSE LET case_results == report.summary.results[seq]
                 answering == SelectSeq(implementations(report),
                                        LAMBDA each : each \in DOMAIN case_results)
                 names == { answering[k] : k \in DOMAIN answering }
             IN  IF \E i \in 0..(Len(case.tests) - 1), each \in names :
                        ~HasResultAt(case_results[each], i)
                 THEN [raised |-> TRUE, entry |-> [seq |-> seq]]
                 ELSE [raised |-> FALSE,
                       entry |->
                         [seq |-> seq, case |-> case,
                          test_results |->
                            [i \in 1..Len(case.tests) |->
                                [each \in names |->
                                    ResultAt(case_results[each], i - 1)]]]]

\* The generator run to its end over the sorted cases from position k on:
\* everything yielded, and whether an exception ended it.
RECURSIVE ViewFrom(_, _, _)
ViewFrom(report, order, k) ==
    IF k > Len(order) THEN [entries |-> <<>>, raised |-> FALSE]
    ELSE LET v == CaseView(report, order[k])
         IN  IF v.raised THEN [entries |-> <<>>, raised |-> TRUE]
             ELSE LET rest == ViewFrom(report, order, k + 1)
                  IN  [entries |-> <<v.entry>> \o rest.entries,
                       raised |-> rest.raised]

\* Report.cases_with_results(), consumed to the end.
cases_with_results(report) ==
    ViewFrom(report, Sorted(DOMAIN report.cases), 1)

\* sum(...) over the values of a map of numbers.
RECURSIVE SumOfValues(_)
SumOfValues(m) ==
    IF DOMAIN m = {} THEN 0
    ELSE LET k == CHOOSE x \in DOMAIN m : TRUE
         IN  m[k] + SumOfValues([x \in (DOMAIN m) \ {k} |-> m[x]])

\* total_tests counting the registered cases instead of their tests.
total_tests_counts_cases(report) == Cardinality(DOMAIN report.cases)

\* Report.total_tests
total_tests(report) ==
    SumOfValues([seq \in DOMAIN report.cases |-> Len(report.cases[seq].tests)])

\* Report.is_empty
is_empty(report) == report.cases = EmptyMap

\* Report.empty(dialect)
empty(dialect) ==
    [cases |-> EmptyMap,
     metadata |-> [dialect |-> dialect, implementations |-> EmptyMap,
                   bowtie_version |-> "installed", metadata |-> "{}",
                   started |-> datetime_now],
     summary |-> EmptySummary,
     did_fail_fast |-> FALSE]

\* ------------------------------------------------- float arithmetic
\* `(passed / total) * 100` is computed in binary64: the quotient is rounded
\* to 53 significant bits, the product again, and int() truncates.  A
\* positive float is [m, e]: m the 53-bit significand as a sequence of bits,
\* least significant first, and e the exponent of its lowest bit.
SignificandBits == 53

\* The sum of two bit sequences.
RECURSIVE AddFrom(_, _, _, _)
AddFrom(a, b, i, carry) ==
    IF i > Len(a) /\ i > Len(b)
    THEN IF carry = 1 THEN <<1>> ELSE <<>>
    ELSE LET t == (IF i <= Len(a) THEN a[i] ELSE 0)
                    + (IF i <= Len(b) THEN b[i] ELSE 0) + carry
         IN  <<t % 2>> \o AddFrom(a, b, i + 1, t \div 2)

AddBits(a, b) == AddFrom(a, b, 1, 0)

\* a * 2^k
ShiftLeft(a, k) == [i \in 1..k |-> 0] \o a

\* The number a bit sequence stands for.
RECURSIVE ToInt(_)
ToInt(a) == IF a = <<>> THEN 0 ELSE a[1] + 2 * ToInt(Tail(a))

Reverse(a) == [i \in 1..Len(a) |-> a[Len(a) + 1 - i]]

\* An exact product or quotient [m, e] of at least 53 bits, its top bit set
\* and `above` telling whether more non-zero bits follow below m, rounded to
\* nearest, ties to even.
RoundBits(m, e, above) ==
    LET drop == Len(m) - SignificandBits
        kept == SubSeq(m, drop + 1, Len(m))
        half == drop > 0 /\ m[drop] = 1
        sticky == above \/ \E i \in 1..(drop - 1) : m[i] = 1
        up == IF drop = 0 THEN FALSE
              ELSE half /\ (sticky \/ kept[1] = 1)
        more == IF up THEN AddBits(kept, <<1>>) ELSE kept
    IN  IF Len(more) > SignificandBits
        THEN [m |-> Tail(more), e |-> e + drop + 1]
        ELSE [m |-> more, e |-> e + drop]

\* k quotient bits of r / d for r < 2d, most significant first, followed by
\* what is left of r.
RECURSIVE QuotientBits(_, _, _)
QuotientBits(r, d, k) ==
    IF k = 0 THEN <<r>>
    ELSE IF r >= d THEN <<1>> \o QuotientBits(2 * (r - d), d, k - 1)
    ELSE <<0>> \o QuotientBits(2 * r, d, k - 1)

\* The least s with n * 2^s >= d.
RECURSIVE ScaleUp(_, _)
ScaleUp(n, d) == IF n >= d THEN 0 ELSE 1 + ScaleUp(2 * n, d)

\* The greatest u with d * 2^u <= n, for n >= d.
RECURSIVE ScaleDown(_, _)
ScaleDown(n, d) == IF n < 2 * d THEN 0 ELSE 1 + ScaleDown(n, 2 * d)

RECURSIVE Pow2(_)
Pow2(k) == IF k = 0 THEN 1 ELSE 2 * Pow2(k - 1)

\* n / d for integers n, d > 0: 54 quotient bits, the last one and the
\* remainder deciding the rounding.
FloatDivide(n, d) ==
    LET s == ScaleUp(n, d)
        u == ScaleDown(n * Pow2(s), d)
        q == QuotientBits(n * Pow2(s), d * Pow2(u), SignificandBits + 1)
    IN  RoundBits(Reverse(SubSeq(q, 1, SignificandBits + 1)),
                  u - s - SignificandBits, q[SignificandBits + 2] /= 0)

\* x * 100 for a float x: 100 = 64 + 32 + 4.
FloatTimes100(x) ==
    RoundBits(AddBits(AddBits(ShiftLeft(x.m, 6), ShiftLeft(x.m, 5)),
                      ShiftLeft(x.m, 2)),
              x.e, FALSE)

\* int(x) for a positive float below 2^53.
FloatToInt(x) ==
    IF x.e >= 0 THEN ToInt(ShiftLeft(x.m, x.e))
    ELSE IF 0 - x.e >= Len(x.m) THEN 0
    ELSE ToInt(SubSeq(x.m, 1 - x.e, Len(x.m)))

\* int((passed / total) * 100) for total > 0; the sign carries through and
\* int() truncates towards zero.
int_pct(passed, total) ==
    IF passed = 0 THEN 0
    ELSE IF passed > 0 THEN FloatToInt(FloatTimes100(FloatDivide(passed, total)))
    ELSE 0 - FloatToInt(FloatTimes100(FloatDivide(0 - passed, total)))

\* ------------------------------------------------------ generate_badges

\* _DIALECT_URI_TO_SHORTNAME, and each label without its "Draft " prefix and
\* with its spaces replaced by underscores.
Shortname ==
    [u \in {Dialect, OtherDialect} |->
        IF u = Dialect THEN "Draft 2020-12" ELSE "Draft 7"]

removeprefix_Draft(label) == IF label = "Draft 2020-12" THEN "2020-12" ELSE "7"

replace_spaces(label) ==
    IF label = "Draft 2020-12" THEN "Draft_2020-12" ELSE "Draft_7"

\* format(n, "02x"): the sign, then the hexadecimal digits, zero-padded so
\* that the whole is at least two characters wide.
HexDigits ==
    <<"0", "1", "2", "3", "4", "5", "6", "7",
      "8", "9", "a", "b", "c", "d", "e", "f">>

RECURSIVE Hex(_)
Hex(n) ==
    IF n < 16 THEN <<HexDigits[n + 1]>>
    ELSE Hex(n \div 16) \o <<HexDigits[(n % 16) + 1]>>

Format02x(n) ==
    IF n < 0 THEN <<"-">> \o Hex(0 - n)
    ELSE IF n < 16 THEN <<"0">> \o Hex(n)
    ELSE Hex(n)

Reversed(seq) == [i \in 1..Len(seq) |-> seq[Len(seq) + 1 - i]]

SeqRange(seq) == { seq[i] : i \in 1..Len(seq) }

\* The two files written for one implementation: the compliance badge, then
\* the supported_versions badge.
BadgeFiles(label, impl, pct) ==
    LET r == 100 - pct
        g == pct
        b == 0
        dialect_versions == [i \in 1..Len(impl.dialects) |->
                                URL_parse(impl.dialects[i])]
    IN  << [path |-> <<impl.language, "-", impl.name, "compliance",
                       replace_spaces(label), ".json">>,
            schemaVersion |-> 1,
            label |-> label,
            message |-> <<pct, "% Passing">>,
            color |-> Format02x(r) \o Format02x(g) \o Format02x(b)],
           [path |-> <<impl.language, "-", impl.name,
                       "supported_versions.json">>,
            schemaVersion |-> 1,
            label |-> "JSON Schema Versions",
            message |-> [i \in 1..Len(dialect_versions) |->
                            removeprefix_Draft(
                                Shortname[URL_str(
                                    Reversed(dialect_versions)[i])])],
            color |-> "lightgreen"] >>

\* One iteration of the loop over metadata.implementations: nothing for an
\* implementation that does not declare the dialect; KeyError when the Summary
\* has no Count for the image; ZeroDivisionError when total is 0.
BadgeStep(report, impl, done) ==
    LET total == total_tests(report)
        by == report.summary.by_implementation
    IN  IF report.metadata.dialect \notin
              { URL_parse(d) : d \in SeqRange(impl.dialects) }
        THEN done
        ELSE IF impl.image \notin DOMAIN by
        THEN [done EXCEPT !.error = "KeyError"]
        ELSE IF total = 0
        THEN [done EXCEPT !.error = "ZeroDivisionError"]
        ELSE LET passed == total - by[impl.image].failed_tests
                                 - by[impl.image].errored_tests
                                 - by[impl.image].skipped_tests
             IN  [done EXCEPT !.written =
                    @ \o BadgeFiles(Shortname[URL_str(report.metadata.dialect)],
                                    impl, int_pct(passed, total))]

\* The descriptors in the order the header's mapping lists them.
DescriptorsOf(report) ==
    LET held == report.metadata.implementations
        keys == SelectSeq(ImplementationOrder, LAMBDA k : k \in DOMAIN held)
    IN  [i \in 1..Len(keys) |-> held[keys[i]]]

RECURSIVE BadgeLoop(_, _, _)
BadgeLoop(report, i, done) ==
    IF i > Len(DescriptorsOf(report)) \/ done.error /= NoError THEN done
    ELSE BadgeLoop(report, i + 1, BadgeStep(report, DescriptorsOf(report)[i], done))

generate_badges(report) ==
    IF URL_str(report.metadata.dialect) \notin DOMAIN Shortname
    THEN [written |-> <<>>, error |-> "KeyError"]
    ELSE BadgeLoop(report, 1, [written |-> <<>>, error |-> NoError])

\* A caller iterates cases_with_results() of the returned Report; a later
\* call starts a new generator over the same Report.
CasesWithResults ==
    /\ pc \in {"done", "queried"}
    /\ view' = cases_with_results(TheReport)
    /\ pc' = "queried"
    /\ UNCHANGED <<input, pos, metadata, cases, summary, did_fail_fast, error,
                 badges, serialized>>

\* A caller has generate_badges write the badges of the returned Report.
GenerateBadges ==
    /\ pc = "done"
    /\ badges' = generate_badges(TheReport)
    /\ pc' = "badged"
    /\ UNCHANGED <<input, pos, metadata, cases, summary, did_fail_fast, error,
                   view, serialized>>

Next ==
    \/ RaiseEmptyReport
    \/ ReadHeader
    \/ PullCase
    \/ PullErrored
    \/ PullSkipped
    \/ PullTerminal
    \/ PullResult
    \/ Exhausted
    \/ CasesWithResults
    \/ GenerateBadges

Spec == Init /\ [][Next]_vars

\* ------------------------------------------------------------ badge runs
\* Reports of one case with T tests which both declaring implementations
\* answered: i1 with the given numbers of failed, errored and skipped tests,
\* i2 passing every test.
Outcomes(T, f, e, s) ==
    [i \in 1..T |->
        IF i <= f THEN "fail"
        ELSE IF i <= f + e THEN "error"
        ELSE IF i <= f + e + s THEN "skip"
        ELSE "pass"]

BadgeRun(T, f, e, s) ==
    << CHOOSE h \in Headers : h.started = "t0",
       [seq |-> 1,
        case |-> [description |-> "A", schema |-> "s",
                  tests |-> [i \in 1..T |-> "t1"]]],
       [seq |-> 1, implementation |-> "i1", results |-> Outcomes(T, f, e, s)],
       [seq |-> 1, implementation |-> "i2", results |-> Outcomes(T, 0, 0, 0)] >>

InitBadges ==
    /\ \E T \in 1..MaxTests :
          \E f \in 0..T, e \in 0..1, s \in 0..1 :
             /\ f + e + s <= T
             /\ input = BadgeRun(T, f, e, s)
    /\ serialized = FALSE
    /\ badges = NoBadges
    /\ pos = 0
    /\ pc = "start"
    /\ metadata = NoMetadata
    /\ cases = EmptyMap
    /\ summary = EmptySummary
    /\ did_fail_fast = FALSE
    /\ error = NoError
    /\ view = NoView

NextBadges ==
    \/ ReadHeader
    \/ PullCase
    \/ PullResult
    \/ Exhausted
    \/ GenerateBadges

SpecBadges == InitBadges /\ [][NextBadges]_vars

\* ------------------------------------------------------ from_serialized
\* The inputs of from_serialized: each line is the JSON text of a record a
\* stream may hold at its place, or is not JSON.
IsSerialized(lines) ==
    \/ lines = <<>>
    \/ \E n \in 0..(MaxLen - 1) :
          \E h \in FirstRecords \cup {Undecodable},
             t \in [1..n -> Records \cup {Undecodable}] :
             lines = [k \in 1..(n + 1) |->
                        LET record == IF k = 1 THEN h ELSE t[k - 1]
                        IN  IF record = Undecodable THEN Undecodable
                            ELSE json_dumps(record)]

InitSerialized ==
    /\ IsSerialized(input)
    /\ serialized = TRUE
    /\ badges = NoBadges
    /\ pos = 0
    /\ pc = "start"
    /\ metadata = NoMetadata
    /\ cases = EmptyMap
    /\ summary = EmptySummary
    /\ did_fail_fast = FALSE
    /\ error = NoError
    /\ view = NoView

NextSerialized ==
    \/ RaiseEmptyReport
    \/ ReadHeader
    \/ PullUndecodable
    \/ PullCase
    \/ PullErrored
    \/ PullSkipped
    \/ PullTerminal
    \/ PullResult
    \/ Exhausted
    \/ CasesWithResults
    \/ GenerateBadges

SpecSerialized == InitSerialized /\ [][NextSerialized]_vars


\* ================================================================ claims
Returned == pc \in {"done", "queried", "badged"}

\* The records the loop has pulled so far are input[2..pos].
Pulled == 2..pos

ShapeAt(k) == Classify(input[k])

ResultBearing(data) == Classify(data) \in {"errored", "skipped", "result"}

\* The (Seq, implementation) pair a result-bearing record carries.
Carries(data) == {"seq", "implementation"} \subseteq DOMAIN data

KeyOf(data) == <<data.seq, data.implementation>>

\* Every (Seq, implementation) pair the Summary holds a result for.
StoredKeys ==
    UNION { { <<s, i>> : i \in DOMAIN summary.results[s] }
              : s \in DOMAIN summary.results }

\* Position of the first terminal-shaped record of the input, 0 if none.
FirstTerminal ==
    IF \E k \in 2..Len(input) : ShapeAt(k) = "terminal"
    THEN CHOOSE k \in 2..Len(input) :
            /\ ShapeAt(k) = "terminal"
            /\ \A j \in 2..(k - 1) : ShapeAt(j) /= "terminal"
    ELSE 0

\* C1: fail-fast truncation.  The iterator never yields a record beyond the
\* first terminal record; once that record has been pulled from_input has
\* returned without an error, and the Report holds exactly the cases and the
\* results of the records before it.
C1_FailFastTruncation ==
    FirstTerminal > 0 =>
        /\ pos <= FirstTerminal
        /\ pos = FirstTerminal =>
            /\ Returned
            /\ error = NoError
            /\ did_fail_fast = input[FirstTerminal].did_fail_fast
            /\ DOMAIN cases =
                 { input[k].seq : k \in { j \in 2..(FirstTerminal - 1) :
                                            ShapeAt(j) = "case" } }
            /\ StoredKeys =
                 { KeyOf(input[k]) : k \in { j \in 2..(FirstTerminal - 1) :
                                               ResultBearing(input[j]) } }

\* A Report cut short by a terminal record that a duplicate case record or a
\* malformed case record follows.
C1_Witness ==
    /\ pc = "done"
    /\ FirstTerminal > 0
    /\ pos = FirstTerminal
    /\ FirstTerminal < Len(input)
    /\ cases /= EmptyMap
    /\ LET after == input[FirstTerminal + 1]
       IN  /\ Classify(after) = "case"
           /\ after.seq \in DOMAIN cases

\* C2: result uniqueness.  When the loop has pulled two result-bearing
\* records with the same (Seq, implementation), of whatever variants, the
\* later one raised the duplicate-result error at once, no Report is
\* returned, and the stored result is still the one decoded from the earlier.
Decoded(data) ==
    CASE Classify(data) = "errored" -> CaseErrored(data)
      [] Classify(data) = "skipped" -> CaseSkipped(Without(data, {"skipped"}))
      [] Classify(data) = "result" -> CaseResult_from_dict(data)

C2_ResultUniqueness ==
    \A j \in Pulled, k \in Pulled :
        ( /\ j < k
          /\ ResultBearing(input[j]) /\ ResultBearing(input[k])
          /\ Carries(input[j]) /\ Carries(input[k])
          /\ Decoded(input[j]).ok /\ Decoded(input[k]).ok
          /\ KeyOf(input[j]) = KeyOf(input[k]) )
        => /\ pc = "raised"
           /\ error = DuplicateResult
           /\ pos = k
           /\ summary.results[input[j].seq][input[j].implementation]
                = Decoded(input[j]).value

\* A duplicate-result error where the two records are of different variants.
C2_Witness ==
    /\ pc = "raised"
    /\ error = DuplicateResult
    /\ \E j \in Pulled :
        /\ j < pos
        /\ ResultBearing(input[j])
        /\ KeyOf(input[j]) = KeyOf(input[pos])
        /\ Classify(input[j]) /= Classify(input[pos])

\* C3: Seq uniqueness.  When the loop has pulled two case records with the
\* same Seq, the later one raised the duplicate-case error at once, whatever
\* its payload; the CaseStore still holds the case decoded from the earlier.
C3_SeqUniqueness ==
    \A j \in Pulled, k \in Pulled :
        ( /\ j < k
          /\ ShapeAt(j) = "case" /\ ShapeAt(k) = "case"
          /\ input[j].seq = input[k].seq )
        => /\ pc = "raised"
           /\ error = DuplicateCase
           /\ pos = k
           /\ cases[input[j].seq] =
                Insert(input[j].case, "dialect", metadata.dialect)

\* A duplicate-case error raised by a record whose payload differs from the
\* registered one and would not even decode.
C3_Witness ==
    /\ pc = "raised"
    /\ error = DuplicateCase
    /\ input[pos].case = BodyM
    /\ cases[input[pos].seq].description = "A"


\* C4: dispatch priority.  Every record the loop pulls has the effect of
\* exactly one handler, the first in the order case, error, skip, terminal,
\* result whose shape the record has: a case record only registers a case, a
\* record with a caught marker is stored as a CaseErrored and adds one to
\* errored, a record with skipped = true is stored as a CaseSkipped and adds
\* one to skipped, neither of them ends the loop even when the record also
\* has did_fail_fast, and only a record of none of these three shapes that
\* has did_fail_fast ends the loop.
CountOfImpl(s, impl) == Get(s.by_implementation, impl, ZeroCount)

StoredAs(d, kind, field) ==
    /\ cases' = cases
    /\ did_fail_fast' = did_fail_fast
    /\ pc' \in {"loop", "raised"}
    /\ pc' = "raised" => summary' = summary
    /\ pc' = "loop" =>
        /\ summary'.results[d.seq][d.implementation].kind = kind
        /\ field /= "" =>
             CountOfImpl(summary', d.implementation) =
                [CountOfImpl(summary, d.implementation) EXCEPT ![field] = @ + 1]

C4_Effect(d) ==
    IF "seq" \in DOMAIN d /\ "case" \in DOMAIN d
    THEN /\ summary' = summary
         /\ did_fail_fast' = did_fail_fast
         /\ pc' \in {"loop", "raised"}
         /\ pc' = "raised" => cases' = cases
         /\ pc' = "loop" =>
              /\ DOMAIN cases' = (DOMAIN cases) \cup {d.seq}
              /\ d.seq \notin DOMAIN cases
    ELSE IF "caught" \in DOMAIN d
    THEN StoredAs(d, "CaseErrored", "errored_tests")
    ELSE IF "skipped" \in DOMAIN d /\ d.skipped = TRUE
    THEN StoredAs(d, "CaseSkipped", "skipped_tests")
    ELSE IF "did_fail_fast" \in DOMAIN d
    THEN /\ pc' = "done"
         /\ did_fail_fast' = d.did_fail_fast
         /\ cases' = cases
         /\ summary' = summary
    ELSE StoredAs(d, "CaseResult", "")

C4_DispatchPriority ==
    [][(pc = "loop" /\ pos' = pos + 1) => C4_Effect(input[pos'])]_vars

\* The loop goes on after a record with a caught marker and did_fail_fast was
\* counted as an error, and a record with a case body and a caught marker
\* was registered as a case without any result being counted.
C4_Witness ==
    /\ pc = "loop"
    /\ pos = 3
    /\ {"seq", "case", "caught"} \subseteq DOMAIN input[2]
    /\ {"caught", "did_fail_fast"} \subseteq DOMAIN input[3]
    /\ DOMAIN cases = {input[2].seq}
    /\ did_fail_fast = FALSE
    /\ DOMAIN summary.by_implementation = {input[3].implementation}
    /\ summary.by_implementation[input[3].implementation] = Count(0, 1, 0)

\* C5: counting policy.  In every returned Report the Count of an
\* implementation is the sum, over the records folded for it, of: the failed,
\* errored and skipped per-test outcomes of its CaseResult records, plus one
\* errored per CaseErrored record and one skipped per CaseSkipped record;
\* passing outcomes add nothing.
RECURSIVE SumOver(_, _)
SumOver(f, S) ==
    IF S = {} THEN 0
    ELSE LET x == CHOOSE y \in S : TRUE IN f[x] + SumOver(f, S \ {x})

\* What one record adds to outcome o ("fail", "error", "skip") of impl.
Adds(data, impl, o) ==
    IF ~Carries(data) \/ data.implementation /= impl THEN 0
    ELSE CASE Classify(data) = "result" -> NumberOf(data.results, o)
           [] Classify(data) = "errored" -> IF o = "error" THEN 1 ELSE 0
           [] Classify(data) = "skipped" -> IF o = "skip" THEN 1 ELSE 0
           [] OTHER -> 0

Tally(impl, o) == SumOver([k \in Pulled |-> Adds(input[k], impl, o)], Pulled)

C5_CountingPolicy ==
    Returned =>
        /\ DOMAIN summary.by_implementation =
             { input[k].implementation :
                 k \in { j \in Pulled : ResultBearing(input[j]) } }
        /\ \A impl \in DOMAIN summary.by_implementation :
             summary.by_implementation[impl] =
                Count(Tally(impl, "fail"), Tally(impl, "error"),
                      Tally(impl, "skip"))

\* A Report where one implementation failed one test, passed one and skipped
\* one over two CaseResult records, and another has a case-level error.
C5_Witness ==
    /\ pc = "done"
    /\ error = NoError
    /\ "i1" \in DOMAIN summary.by_implementation
    /\ "i2" \in DOMAIN summary.by_implementation
    /\ summary.by_implementation["i1"] = Count(1, 0, 1)
    /\ summary.by_implementation["i2"] = Count(0, 1, 0)
    /\ 2 \in DOMAIN summary.results
    /\ "i2" \in DOMAIN summary.results[2]
    /\ summary.results[2]["i2"].kind = "CaseErrored"


\* C6: Count order-independence.  For every returned Report, folding the
\* records it was built from (terminal record left out) in any other order
\* succeeds as well and gives every implementation the same Count.
Folded == { k \in Pulled : ShapeAt(k) /= "terminal" }

FoldedRecords ==
    LET order == Sorted(Folded) IN [k \in 1..Len(order) |-> input[order[k]]]

Orders(n) ==
    { f \in [1..n -> 1..n] : \A a, b \in 1..n : f[a] = f[b] => a = b }

Reordered(records, f) == [k \in 1..Len(records) |-> records[f[k]]]

C6_CountOrderIndependence ==
    Returned =>
        \A f \in Orders(Len(FoldedRecords)) :
            LET again == from_input(<<input[1]>> \o Reordered(FoldedRecords, f))
            IN  /\ again.pc = "done"
                /\ again.summary.by_implementation = summary.by_implementation

\* A Report built from two results of one implementation that count
\* differently, another implementation's result and nothing else.
C6_Witness ==
    /\ pc = "done"
    /\ Len(FoldedRecords) = 3
    /\ \A k \in Folded : ResultBearing(input[k])
    /\ { input[k].seq : k \in { j \in Folded : input[j].implementation = "i1" } }
          = {1, 2}
    /\ \E k \in Folded : input[k].implementation = "i2"
    /\ summary.by_implementation["i1"] = Count(1, 0, 1)


\* C7: round trip.  Writing a returned Report back out through the
\* reporters (the header, then per Seq in ascending order the case record
\* and every result stored for that Seq, then the terminal record) and
\* running from_input on what was written returns a Report with the same
\* cases, the same results and Counts and the same did_fail_fast.
RECURSIVE AsSequence(_)
AsSequence(S) ==
    IF S = {} THEN <<>>
    ELSE LET x == CHOOSE y \in S : TRUE IN <<x>> \o AsSequence(S \ {x})

WrittenFor(report, seq) ==
    (IF seq \in DOMAIN report.cases
     THEN <<case_started(seq, report.cases[seq])>> ELSE <<>>)
    \o (IF seq \in DOMAIN report.summary.results
        THEN LET stored == report.summary.results[seq]
                 names == AsSequence(DOMAIN stored)
             IN  [k \in 1..Len(names) |-> WriteResult(stored[names[k]])]
        ELSE <<>>)

RECURSIVE WrittenFrom(_, _, _)
WrittenFrom(report, order, k) ==
    IF k > Len(order) THEN <<>>
    ELSE WrittenFor(report, order[k]) \o WrittenFrom(report, order, k + 1)

Written(report) ==
    <<ready(report.metadata)>>
    \o WrittenFrom(report,
                   Sorted((DOMAIN report.cases) \cup (DOMAIN report.summary.results)),
                   1)
    \o <<finished(report.did_fail_fast)>>

C7_RoundTrip ==
    Returned =>
        LET again == from_input(Written(TheReport))
        IN  /\ again.pc = "done"
            /\ again.cases = cases
            /\ again.summary.by_implementation = summary.by_implementation
            /\ again.summary.results = summary.results
            /\ again.did_fail_fast = did_fail_fast
            /\ again.metadata = metadata

\* A Report with a case, a case-level result and the fail-fast flag set,
\* built from a record of more than one shape, so that what the reporters
\* write back is not the input.
C7_Witness ==
    /\ pc = "done"
    /\ did_fail_fast = TRUE
    /\ cases /= EmptyMap
    /\ \E s \in DOMAIN summary.results : \E i \in DOMAIN summary.results[s] :
          summary.results[s][i].kind \in {"CaseErrored", "CaseSkipped"}
    /\ \E k \in Pulled :
          /\ input[k] \in OverlapRecords
          /\ ResultBearing(input[k])
          /\ \A j \in 1..Len(Written(TheReport)) :
                Written(TheReport)[j] /= input[k]


\* C8: the header.  On an empty source from_input raises EmptyReport, reads
\* nothing and returns no Report.  On any other source it never raises
\* EmptyReport, the first record is the one RunMetadata is built from (or the
\* one whose decoding fails, before anything is registered), and every entry
\* of the CaseStore and the Summary comes from a later record.
C8_HeaderOrEmpty ==
    /\ input = <<>> =>
        /\ pc \in {"start", "raised"}
        /\ pos = 0
        /\ metadata = NoMetadata
        /\ pc = "raised" => error = EmptyReport
    /\ (input /= <<>> /\ pc /= "start") =>
        /\ error /= EmptyReport
        /\ pos >= 1
        /\ Cardinality(DOMAIN cases) + Cardinality(StoredKeys) <= pos - 1
        /\ LET md == RunMetadata_from_dict(input[1])
           IN  IF md.ok
               THEN metadata = md.value
               ELSE /\ pc = "raised"
                    /\ error = DecodeError
                    /\ pos = 1
                    /\ metadata = NoMetadata
                    /\ cases = EmptyMap
                    /\ summary = EmptySummary

\* from_input has raised EmptyReport on the empty source.
C8_Witness ==
    /\ input = <<>>
    /\ pc = "raised"
    /\ error = EmptyReport

\* C9: in every returned Report did_fail_fast is the value carried by the
\* terminal record that ended the loop, and false when the loop ended because
\* the source was exhausted, whatever the records before carried.
EndedByTerminal == pos >= 2 /\ ShapeAt(pos) = "terminal"

C9_DidFailFast ==
    Returned =>
        did_fail_fast =
            IF EndedByTerminal THEN input[pos].did_fail_fast ELSE FALSE

\* A Report whose source was exhausted after a record that carried
\* did_fail_fast = true without being the terminal record.
C9_Witness ==
    /\ pc = "done"
    /\ ~EndedByTerminal
    /\ did_fail_fast = FALSE
    /\ \E k \in Pulled :
          /\ "did_fail_fast" \in DOMAIN input[k]
          /\ input[k].did_fail_fast = TRUE

\* C10: cases_with_results yields one entry per registered case, in
\* ascending Seq order, without raising.
C10_OneEntryPerCaseAscending ==
    pc = "queried" =>
        /\ ~view.raised
        /\ Len(view.entries) = Cardinality(DOMAIN cases)
        /\ \A k \in 1..Len(view.entries) :
              view.entries[k].seq = Sorted(DOMAIN cases)[k]


\* C11: the per-test views.  cases_with_results does not raise, and for every
\* registered case and every Test position the view maps exactly the
\* implementations that have a result stored for the case, each to its
\* outcome at that position; a case without any stored result gets empty views.
Answered(seq) ==
    IF seq \in DOMAIN summary.results THEN DOMAIN summary.results[seq] ELSE {}

C11_PerTestViews ==
    pc = "queried" =>
        /\ ~view.raised
        /\ { view.entries[k].seq : k \in 1..Len(view.entries) } = DOMAIN cases
        /\ \A k \in 1..Len(view.entries) :
              LET e == view.entries[k]
              IN  \A i \in 1..Len(cases[e.seq].tests) :
                    /\ DOMAIN e.test_results[i] = Answered(e.seq)
                    /\ \A each \in Answered(e.seq) :
                          e.test_results[i][each] =
                              ResultAt(summary.results[e.seq][each], i - 1)

\* C12: total_tests is the number of Tests of the registered cases, whatever
\* results were folded; is_empty holds exactly when no case is registered;
\* the empty Report of a dialect has no tests and is empty.
TestsOfCaseRecords ==
    SumOver([k \in Pulled |->
                IF ShapeAt(k) = "case" THEN Len(input[k].case.tests) ELSE 0],
            Pulled)

C12_TotalTests ==
    /\ Returned =>
        /\ total_tests(TheReport) = TestsOfCaseRecords
        /\ total_tests([TheReport EXCEPT !.summary = EmptySummary])
             = total_tests(TheReport)
        /\ is_empty(TheReport) <=> (\A k \in Pulled : ShapeAt(k) /= "case")
    /\ total_tests(empty(URL_parse(Dialect))) = 0
    /\ is_empty(empty(URL_parse(Dialect)))

\* A Report with two cases of three Tests in all and a single result.
C12_Witness ==
    /\ pc = "done"
    /\ DOMAIN cases = {1, 2}
    /\ total_tests(TheReport) = 3
    /\ Cardinality(StoredKeys) = 1
    /\ ~is_empty(TheReport)

\* C13: for a Report with no tests, generate_badges does not divide by zero:
\* whatever implementation declares the report's dialect, the call does not
\* end in the arithmetic error of the unguarded division.
C13_ZeroTotalGuarded ==
    (pc = "badged" /\ total_tests(TheReport) = 0)
        => badges.error /= "ZeroDivisionError"

\* The compliance badges generate_badges wrote, and the percentage each
\* message shows.
ComplianceBadges ==
    SelectSeq(badges.written, LAMBDA file : file.label /= "JSON Schema Versions")

\* C14: in every Report from_input returns, no implementation's
\* unsuccessful_tests exceeds total_tests, so the percentage and the red and
\* green channels of every compliance badge lie in 0..100.
C14_UnsuccessfulBounded ==
    Returned =>
        /\ \A impl \in DOMAIN summary.by_implementation :
              unsuccessful_tests(summary.by_implementation[impl])
                  <= total_tests(TheReport)
        /\ \A i \in 1..Len(ComplianceBadges) :
              /\ ComplianceBadges[i].message[1] \in 0..100
              /\ 100 - ComplianceBadges[i].message[1] \in 0..100

\* The byte n of 0..255 as two hexadecimal digits.
TwoHexDigits(n) == <<HexDigits[(n \div 16) + 1], HexDigits[(n % 16) + 1]>>

\* C15: with total_tests = T > 0 and i1's Count (failed, errored, skipped),
\* i1's compliance badge shows pct = passed * 100 / T truncated to an integer,
\* where passed = T - (failed + errored + skipped), the message
\* "<pct>% Passing" and the colour 100 - pct, pct, 0 as two hex digits each.
C15_BadgeArithmetic ==
    (pc = "badged" /\ Len(ComplianceBadges) > 0) =>
        LET T == total_tests(TheReport)
            passed == T - unsuccessful_tests(summary.by_implementation["i1"])
            pct == (passed * 100) \div T
        IN  /\ ComplianceBadges[1].message = <<pct, "% Passing">>
            /\ ComplianceBadges[1].color =
                  TwoHexDigits(100 - pct) \o TwoHexDigits(pct) \o TwoHexDigits(0)

\* The files generate_badges wrote under the directory of an implementation.
WrittenUnder(impl) ==
    { badges.written[i].path : i \in { j \in 1..Len(badges.written) :
          /\ badges.written[j].path[1] = impl.language
          /\ badges.written[j].path[3] = impl.name } }

Declares(impl, dialect) ==
    \E i \in 1..Len(impl.dialects) : URL_parse(impl.dialects[i]) = dialect

\* C16: for a Report with tests, generate_badges writes the compliance badge
\* and the supported_versions badge of every implementation of the header
\* that declares the report's dialect, whether or not a result of it was
\* folded, and writes nothing for an implementation that does not declare it.
C16_BothArtifacts ==
    (pc = "badged" /\ total_tests(TheReport) > 0) =>
        \A k \in DOMAIN metadata.implementations :
            LET impl == metadata.implementations[k]
            IN  IF Declares(impl, metadata.dialect)
                THEN WrittenUnder(impl) =
                        { <<impl.language, "-", impl.name, "compliance",
                            replace_spaces(Shortname[URL_str(metadata.dialect)]),
                            ".json">>,
                          <<impl.language, "-", impl.name,
                            "supported_versions.json">> }
                ELSE WrittenUnder(impl) = {}

\* The lines of a from_serialized input that json.loads rejects.
UndecodableLines == { k \in 1..Len(input) : ~Decodes(k) }

\* The fold stopped at a terminal record, which it decoded from line pos.
StoppedAtTerminal ==
    /\ pos >= 2
    /\ Decodes(pos)
    /\ Classify(Yielded(pos)) = "terminal"

\* C17 as stated: no Report is produced from an input of from_serialized
\* that contains a line which does not decode as JSON, wherever the line is.
C17_AnyUndecodableLineFatal ==
    (serialized /\ UndecodableLines /= {}) => ~Returned

\* C17: a line from_serialized reaches that does not decode as JSON is
\* fatal, neither skipped nor deferred: the call raises the decoding error
\* at that line and reads nothing after it.  A Report is produced from an
\* input holding such a line only when every such line comes after the
\* terminal record at which the fold stopped reading.
C17_ReachedUndecodableLineFatal ==
    serialized =>
        /\ \A k \in UndecodableLines :
              k <= pos => /\ pc = "raised"
                          /\ error = JSONDecodeError
                          /\ pos = k
        /\ (Returned /\ UndecodableLines /= {}) =>
              /\ StoppedAtTerminal
              /\ \A k \in UndecodableLines : k > pos

\* A line that is not JSON is reached after a case and a result were stored,
\* and ends the call.
C17_Witness ==
    /\ serialized
    /\ pc = "raised"
    /\ error = JSONDecodeError
    /\ pos >= 4
    /\ cases /= EmptyMap
    /\ StoredKeys /= {}

\* m2 holds every entry of m1, unchanged.
Extends(m2, m1) ==
    \A k \in DOMAIN m1 : k \in DOMAIN m2 /\ m2[k] = m1[k]

\* No field of c2 is below the same field of c1.
AtLeast(c2, c1) ==
    /\ c2.failed_tests >= c1.failed_tests
    /\ c2.errored_tests >= c1.errored_tests
    /\ c2.skipped_tests >= c1.skipped_tests

\* C18: the CaseStore and the Summary are empty when the loop starts; no
\* step of the fold removes or replaces a registered case or a stored
\* (Seq, implementation) result, or lowers a field of a Count; and every
\* record after which the loop goes on added exactly one entry, a case or a
\* result.
C18_MonotonicGrowth ==
    [][ /\ (pc = "start" /\ pc' = "loop") =>
              cases' = EmptyMap /\ summary' = EmptySummary
        /\ pc = "loop" =>
              /\ Extends(cases', cases)
              /\ \A seq \in DOMAIN summary.results :
                    /\ seq \in DOMAIN summary'.results
                    /\ Extends(summary'.results[seq], summary.results[seq])
              /\ \A impl \in DOMAIN summary.by_implementation :
                    /\ impl \in DOMAIN summary'.by_implementation
                    /\ AtLeast(summary'.by_implementation[impl],
                               summary.by_implementation[impl])
              /\ (pos' = pos + 1 /\ pc' = "loop") =>
                    Cardinality(DOMAIN cases') + Cardinality(StoredKeys')
                        = Cardinality(DOMAIN cases) + Cardinality(StoredKeys) + 1
      ]_vars

\* The loop goes on after a case was registered and an implementation's
\* Count was raised twice.
C18_Witness ==
    /\ pc = "loop"
    /\ pos >= 4
    /\ cases /= EmptyMap
    /\ \E impl \in DOMAIN summary.by_implementation :
          unsuccessful_tests(summary.by_implementation[impl]) >= 2

\* The Count of the results a Summary stores for an implementation, each
\* counted once from zero.
Recount(s, impl) ==
    LET seqs == { seq \in DOMAIN s.results : impl \in DOMAIN s.results[seq] }
        part(field) ==
            SumOver([seq \in seqs |->
                        be_counted(s.results[seq][impl], ZeroCount)[field]],
                    seqs)
    IN  Count(part("failed_tests"), part("errored_tests"),
              part("skipped_tests"))

Consistent(s) ==
    /\ DOMAIN s.by_implementation =
          UNION { DOMAIN s.results[seq] : seq \in DOMAIN s.results }
    /\ \A impl \in DOMAIN s.by_implementation :
          s.by_implementation[impl] = Recount(s, impl)

\* C19: after every step the implementations with a Count are those with a
\* stored result and each Count is the count of the implementation's stored
\* results; a with_result call rejected as a duplicate leaves the Summary as
\* it was.
C19_AtomicInsertion ==
    [][ /\ Consistent(summary')
        /\ (pc = "loop" /\ pc' = "raised" /\ error' = DuplicateResult)
              => summary' = summary
      ]_vars

\* A duplicate is rejected by a Summary that holds several results.
C19_Witness ==
    /\ pc = "raised"
    /\ error = DuplicateResult
    /\ Cardinality(StoredKeys) >= 2

\* C20: in the loop, a case record leaves the Summary and did_fail_fast as
\* they were; a result-bearing record leaves the CaseStore and did_fail_fast
\* as they were and, when it decodes and its (Seq, implementation) is new, is
\* stored whether or not a case with its Seq is registered; the terminal
\* record leaves the CaseStore and the Summary as they were; and nothing
\* after the header changes the RunMetadata.
C20_FrameConditions ==
    [][ /\ pc /= "start" => metadata' = metadata
        /\ (pc = "loop" /\ pos' = pos + 1) =>
              LET data == input[pos + 1]
              IN  /\ Classify(data) = "case" =>
                        summary' = summary /\ did_fail_fast' = did_fail_fast
                  /\ ResultBearing(data) =>
                        /\ cases' = cases
                        /\ did_fail_fast' = did_fail_fast
                        /\ (Decoded(data).ok /\ KeyOf(data) \notin StoredKeys) =>
                              /\ pc' = "loop"
                              /\ StoredKeys' = StoredKeys \cup {KeyOf(data)}
                  /\ Classify(data) = "terminal" =>
                        cases' = cases /\ summary' = summary
      ]_vars

\* A result is stored for a Seq no case is registered under, next to a case
\* registered under another Seq.
C20_Witness ==
    /\ pc = "loop"
    /\ cases /= EmptyMap
    /\ \E key \in StoredKeys : key[1] \notin DOMAIN cases

====
